---- MODULE Spec2Model ----
(***************************************************************************)
(* QualityService (src/src/cache/quality.service.ts): the quality          *)
(* fingerprinting core of the transcoding cache.  A request URL is parsed  *)
(* into a sparse quality descriptor; the descriptor is canonicalised and   *)
(* hashed into a 12 character cache key, compared, scored and described.   *)
(*                                                                         *)
(* Strings of the program are sequences of one-character strings, so that  *)
(* toUpperCase, parseInt, JSON.stringify and MD5 are computed character by *)
(* character.  Attribute and parameter NAMES are TLA+ strings; Chars gives *)
(* their characters.                                                       *)
(***************************************************************************)
EXTENDS Integers, Sequences, FiniteSets, TLC

VARIABLES
    url,       \* the request URLs, one per request (<<>>: descriptors built by the caller)
    quality,   \* the QualityInfo of each request (Pending until extracted)
    key,       \* the cache key generated for each request (NoKey until hashed)
    equal,     \* the result of areQualitiesEqual on the two requests (Unknown until compared)
    pc,        \* "request": a URL awaits extraction; "idle"; "returned": a call has returned
    ret,       \* the outcome of the call that returned last
    logged     \* the records that call handed to the logger

vars == <<url, quality, key, equal, pc, ret, logged>>

----------------------------------------------------------------------------
(* Characters *)

AsciiLow ==
    <<
       " ", "!", "\"", "#", "$", "%", "&", "'", "(", ")", "*", "+", ",", "-", ".", "/",
       "0", "1", "2", "3", "4", "5", "6", "7", "8", "9", ":", ";", "<", "=", ">", "?",
       "@", "A", "B", "C", "D", "E", "F", "G", "H", "I", "J", "K", "L", "M", "N", "O",
       "P", "Q", "R", "S", "T", "U", "V", "W", "X", "Y", "Z", "[", "\\", "]", "^", "_"
    >>

AsciiHigh ==
    <<
       "a", "b", "c", "d", "e", "f", "g", "h", "i", "j", "k", "l", "m", "n", "o", "p",
       "q", "r", "s", "t", "u", "v", "w", "x", "y", "z", "{", "|", "}", "~"
    >>

CodeOf ==
    [c \in {AsciiLow[i] : i \in 1..Len(AsciiLow)} \cup {AsciiHigh[i] : i \in 1..Len(AsciiHigh)} |->
        IF \E n \in 1..Len(AsciiLow) : AsciiLow[n] = c
        THEN 31 + (CHOOSE n \in 1..Len(AsciiLow) : AsciiLow[n] = c)
        ELSE 96 + (CHOOSE n \in 1..Len(AsciiHigh) : AsciiHigh[n] = c)]

CharOf(n) == IF n <= 95 THEN AsciiLow[n - 31] ELSE AsciiHigh[n - 96]

IsDigit(c) == CodeOf[c] >= 48 /\ CodeOf[c] <= 57
DigitVal(c) == CodeOf[c] - 48

ToUpperChar(c) == IF CodeOf[c] >= 97 /\ CodeOf[c] <= 122 THEN CharOf(CodeOf[c] - 32) ELSE c
ToUpperCase(s) == [i \in 1..Len(s) |-> ToUpperChar(s[i])]

RECURSIVE StrLess(_, _)
StrLess(a, b) ==
    IF b = <<>> THEN FALSE
    ELSE IF a = <<>> THEN TRUE
    ELSE IF CodeOf[a[1]] # CodeOf[b[1]] THEN CodeOf[a[1]] < CodeOf[b[1]]
    ELSE StrLess(Tail(a), Tail(b))

----------------------------------------------------------------------------
(* The attribute vocabulary *)

Attributes ==
    <<
       [key |-> "maxVideoBitrate", names |-> <<"maxVideoBitrate", "MaxVideoBitrate">>],
       [key |-> "videoCodec", names |-> <<"videoCodec", "VideoCodec">>],
       [key |-> "maxWidth", names |-> <<"maxWidth", "MaxWidth">>],
       [key |-> "maxHeight", names |-> <<"maxHeight", "MaxHeight">>],
       [key |-> "videoLevel", names |-> <<"videoLevel", "VideoLevel">>],
       [key |-> "profile", names |-> <<"profile", "Profile">>],
       [key |-> "maxFramerate", names |-> <<"maxFramerate", "MaxFramerate">>],
       [key |-> "videoBitDepth", names |-> <<"videoBitDepth", "VideoBitDepth">>],
       [key |-> "audioCodec", names |-> <<"audioCodec", "AudioCodec">>],
       [key |-> "audioChannels", names |-> <<"audioChannels", "AudioChannels">>],
       [key |-> "audioBitrate", names |-> <<"audioBitrate", "AudioBitrate">>],
       [key |-> "audioSampleRate", names |-> <<"audioSampleRate", "AudioSampleRate">>],
       [key |-> "container", names |-> <<"container", "Container">>],
       [key |-> "segmentContainer", names |-> <<"segmentContainer", "SegmentContainer">>],
       [key |-> "subtitleCodec", names |-> <<"subtitleCodec", "SubtitleCodec">>],
       [key |-> "audioStreamIndex", names |-> <<"audioStreamIndex">>],
       [key |-> "subtitleStreamIndex", names |-> <<"subtitleStreamIndex">>],
       [key |-> "audioLanguage", names |-> <<"audioLanguage">>],
       [key |-> "subtitleLanguage", names |-> <<"subtitleLanguage">>],
       [key |-> "maxAudioChannels", names |-> <<"maxAudioChannels">>],
       [key |-> "transcodingMaxAudioChannels", names |-> <<"transcodingMaxAudioChannels">>],
       [key |-> "subtitleMethod", names |-> <<"subtitleMethod">>],
       [key |-> "startTimeTicks", names |-> <<"startTimeTicks">>],
       [key |-> "mediaSourceId", names |-> <<"MediaSourceId">>],
       [key |-> "deviceId", names |-> <<"DeviceId">>],
       [key |-> "playSessionId", names |-> <<"PlaySessionId">>]
    >>


Chars ==
    [
       maxVideoBitrate |-> <<"m", "a", "x", "V", "i", "d", "e", "o", "B", "i", "t", "r", "a", "t", "e">>,
       MaxVideoBitrate |-> <<"M", "a", "x", "V", "i", "d", "e", "o", "B", "i", "t", "r", "a", "t", "e">>,
       videoCodec |-> <<"v", "i", "d", "e", "o", "C", "o", "d", "e", "c">>,
       VideoCodec |-> <<"V", "i", "d", "e", "o", "C", "o", "d", "e", "c">>,
       maxWidth |-> <<"m", "a", "x", "W", "i", "d", "t", "h">>,
       MaxWidth |-> <<"M", "a", "x", "W", "i", "d", "t", "h">>,
       maxHeight |-> <<"m", "a", "x", "H", "e", "i", "g", "h", "t">>,
       MaxHeight |-> <<"M", "a", "x", "H", "e", "i", "g", "h", "t">>,
       videoLevel |-> <<"v", "i", "d", "e", "o", "L", "e", "v", "e", "l">>,
       VideoLevel |-> <<"V", "i", "d", "e", "o", "L", "e", "v", "e", "l">>,
       profile |-> <<"p", "r", "o", "f", "i", "l", "e">>,
       Profile |-> <<"P", "r", "o", "f", "i", "l", "e">>,
       maxFramerate |-> <<"m", "a", "x", "F", "r", "a", "m", "e", "r", "a", "t", "e">>,
       MaxFramerate |-> <<"M", "a", "x", "F", "r", "a", "m", "e", "r", "a", "t", "e">>,
       videoBitDepth |-> <<"v", "i", "d", "e", "o", "B", "i", "t", "D", "e", "p", "t", "h">>,
       VideoBitDepth |-> <<"V", "i", "d", "e", "o", "B", "i", "t", "D", "e", "p", "t", "h">>,
       audioCodec |-> <<"a", "u", "d", "i", "o", "C", "o", "d", "e", "c">>,
       AudioCodec |-> <<"A", "u", "d", "i", "o", "C", "o", "d", "e", "c">>,
       audioChannels |-> <<"a", "u", "d", "i", "o", "C", "h", "a", "n", "n", "e", "l", "s">>,
       AudioChannels |-> <<"A", "u", "d", "i", "o", "C", "h", "a", "n", "n", "e", "l", "s">>,
       audioBitrate |-> <<"a", "u", "d", "i", "o", "B", "i", "t", "r", "a", "t", "e">>,
       AudioBitrate |-> <<"A", "u", "d", "i", "o", "B", "i", "t", "r", "a", "t", "e">>,
       audioSampleRate |-> <<"a", "u", "d", "i", "o", "S", "a", "m", "p", "l", "e", "R", "a", "t", "e">>,
       AudioSampleRate |-> <<"A", "u", "d", "i", "o", "S", "a", "m", "p", "l", "e", "R", "a", "t", "e">>,
       container |-> <<"c", "o", "n", "t", "a", "i", "n", "e", "r">>,
       Container |-> <<"C", "o", "n", "t", "a", "i", "n", "e", "r">>,
       segmentContainer |-> <<"s", "e", "g", "m", "e", "n", "t", "C", "o", "n", "t", "a", "i", "n", "e", "r">>,
       SegmentContainer |-> <<"S", "e", "g", "m", "e", "n", "t", "C", "o", "n", "t", "a", "i", "n", "e", "r">>,
       subtitleCodec |-> <<"s", "u", "b", "t", "i", "t", "l", "e", "C", "o", "d", "e", "c">>,
       SubtitleCodec |-> <<"S", "u", "b", "t", "i", "t", "l", "e", "C", "o", "d", "e", "c">>,
       audioStreamIndex |-> <<"a", "u", "d", "i", "o", "S", "t", "r", "e", "a", "m", "I", "n", "d", "e", "x">>,
       subtitleStreamIndex |-> <<"s", "u", "b", "t", "i", "t", "l", "e", "S", "t", "r", "e", "a", "m", "I", "n", "d", "e", "x">>,
       audioLanguage |-> <<"a", "u", "d", "i", "o", "L", "a", "n", "g", "u", "a", "g", "e">>,
       subtitleLanguage |-> <<"s", "u", "b", "t", "i", "t", "l", "e", "L", "a", "n", "g", "u", "a", "g", "e">>,
       maxAudioChannels |-> <<"m", "a", "x", "A", "u", "d", "i", "o", "C", "h", "a", "n", "n", "e", "l", "s">>,
       transcodingMaxAudioChannels |-> <<"t", "r", "a", "n", "s", "c", "o", "d", "i", "n", "g", "M", "a", "x", "A", "u", "d", "i", "o", "C", "h", "a", "n", "n", "e", "l", "s">>,
       subtitleMethod |-> <<"s", "u", "b", "t", "i", "t", "l", "e", "M", "e", "t", "h", "o", "d">>,
       startTimeTicks |-> <<"s", "t", "a", "r", "t", "T", "i", "m", "e", "T", "i", "c", "k", "s">>,
       mediaSourceId |-> <<"m", "e", "d", "i", "a", "S", "o", "u", "r", "c", "e", "I", "d">>,
       MediaSourceId |-> <<"M", "e", "d", "i", "a", "S", "o", "u", "r", "c", "e", "I", "d">>,
       deviceId |-> <<"d", "e", "v", "i", "c", "e", "I", "d">>,
       DeviceId |-> <<"D", "e", "v", "i", "c", "e", "I", "d">>,
       playSessionId |-> <<"p", "l", "a", "y", "S", "e", "s", "s", "i", "o", "n", "I", "d">>,
       PlaySessionId |-> <<"P", "l", "a", "y", "S", "e", "s", "s", "i", "o", "n", "I", "d">>,
       AudioStreamIndex |-> <<"A", "u", "d", "i", "o", "S", "t", "r", "e", "a", "m", "I", "n", "d", "e", "x">>
    ]

----------------------------------------------------------------------------
(* Values of the program that are not strings.  A string is a sequence of  *)
(* one-character strings, so these sequences are different from every      *)
(* string.                                                                 *)

Null == <<"null">>
Undefined == <<"undefined">>

\* JavaScript truthiness of a string, null or undefined
Truthy(v) == v # Null /\ v # Undefined /\ v # <<>>

----------------------------------------------------------------------------
(* new URL(url) and URLSearchParams.get.  A request URL is given by        *)
(* whether it is an absolute URL and by its query, the name=value          *)
(* parameters in the order they are written.                               *)

NewURL(u) ==
    IF u.absolute
    THEN [threw |-> FALSE, searchParams |-> u.query]
    ELSE [threw |-> TRUE, searchParams |-> <<>>]

\* URLSearchParams.get: the value of the first parameter of that name, or null
RECURSIVE Get(_, _)
Get(params, name) ==
    IF params = <<>> THEN Null
    ELSE IF params[1].name = name THEN params[1].value
    ELSE Get(Tail(params), name)

----------------------------------------------------------------------------
(* extractQualityFromUrl *)

\* a faulty Lookup: the spellings are tried from the last to the first
RECURSIVE Lookup_LastFirst(_, _)
Lookup_LastFirst(params, names) ==
    IF names = <<>> THEN Undefined
    ELSE LET v == Get(params, names[Len(names)])
         IN IF Truthy(v) THEN v ELSE Lookup_LastFirst(params, SubSeq(names, 1, Len(names) - 1))

\* params.get(n1) || params.get(n2) || undefined
RECURSIVE Lookup(_, _)
Lookup(params, names) ==
    IF names = <<>> THEN Undefined
    ELSE LET v == Get(params, names[1])
         IN IF Truthy(v) THEN v ELSE Lookup(params, Tail(names))

\* the object literal: every attribute, in the order of the literal
QualityLiteral(params) ==
    [i \in 1..Len(Attributes) |->
        [key |-> Attributes[i].key, value |-> Lookup(params, Attributes[i].names)]]

\* a faulty RemoveUndefined: the undefined entries stay
RemoveUndefined_Kept(info) == info

\* Object.keys(qualityInfo).forEach(key => delete the undefined ones)
RemoveUndefined(info) == SelectSeq(info, LAMBDA e : e.value # Undefined)

\* the try block
TryExtract(u) ==
    LET urlObj == NewURL(u)
    IN IF urlObj.threw
       THEN [threw |-> TRUE, value |-> <<>>, logs |-> <<>>]
       ELSE [threw |-> FALSE,
             value |-> RemoveUndefined(QualityLiteral(urlObj.searchParams)),
             logs |-> <<"debug">>]

\* a faulty catch block: the error is thrown again
CatchExtract_Rethrow(r) == r

\* the catch block
CatchExtract(r) == [threw |-> FALSE, value |-> <<>>, logs |-> r.logs \o <<"error">>]

extractQualityFromUrl(u) ==
    LET r == TryExtract(u)
    IN IF r.threw THEN CatchExtract(r) ELSE r

----------------------------------------------------------------------------
(* QualityInfo: the present attributes in insertion order, each a          *)
(* [key, value] entry.                                                     *)

ObjectKeys(q) == [i \in 1..Len(q) |-> q[i].key]

HasKey(q, k) == \E i \in 1..Len(q) : q[i].key = k

\* qualityInfo[k]: undefined when the attribute is absent
Field(q, k) ==
    IF HasKey(q, k) THEN q[CHOOSE i \in 1..Len(q) : q[i].key = k].value ELSE Undefined
----------------------------------------------------------------------------
(* JSON.stringify of an object whose values are strings *)

\* the characters of a string inside a JSON string literal
RECURSIVE JsonEscape(_)
JsonEscape(s) ==
    IF s = <<>> THEN <<>>
    ELSE (IF s[1] = "\"" \/ s[1] = "\\" THEN <<"\\", s[1]>> ELSE <<s[1]>>) \o JsonEscape(Tail(s))

JsonQuote(s) == <<"\"">> \o JsonEscape(s) \o <<"\"">>

JsonMember(e) == JsonQuote(Chars[e.key]) \o <<":">> \o JsonQuote(e.value)

RECURSIVE JsonMembers(_)
JsonMembers(obj) ==
    IF obj = <<>> THEN <<>>
    ELSE IF Len(obj) = 1 THEN JsonMember(obj[1])
    ELSE JsonMember(obj[1]) \o <<",">> \o JsonMembers(Tail(obj))

JSONStringify(obj) == <<"{">> \o JsonMembers(obj) \o <<"}">>

----------------------------------------------------------------------------
(* MD5 (RFC 1321), the digest createHash('md5') computes.  A 32-bit word   *)
(* is the pair <<low 16 bits, high 16 bits>>.                              *)

MD5_K ==
    <<
       <<42104, 55146>>, <<46934, 59591>>, <<28891, 9248>>, <<52974, 49597>>,
       <<4015, 62844>>, <<50730, 18311>>, <<17939, 43056>>, <<38145, 64838>>,
       <<39128, 27008>>, <<63407, 35652>>, <<23473, 65535>>, <<55230, 35164>>,
       <<4386, 27536>>, <<29075, 64920>>, <<17294, 42617>>, <<2081, 18868>>,
       <<9570, 63006>>, <<45888, 49216>>, <<23121, 9822>>, <<51114, 59830>>,
       <<4189, 54831>>, <<5203, 580>>, <<59009, 55457>>, <<64456, 59347>>,
       <<52710, 8673>>, <<2006, 49975>>, <<3463, 62677>>, <<5357, 17754>>,
       <<59653, 43491>>, <<41976, 64751>>, <<729, 26479>>, <<19594, 36138>>,
       <<14658, 65530>>, <<63105, 34673>>, <<24866, 28061>>, <<14348, 64997>>,
       <<59972, 42174>>, <<53161, 19422>>, <<19296, 63163>>, <<48240, 48831>>,
       <<32454, 10395>>, <<10234, 60065>>, <<12421, 54511>>, <<7429, 1160>>,
       <<53305, 55764>>, <<39397, 59099>>, <<31992, 8098>>, <<22117, 50348>>,
       <<8772, 62505>>, <<65431, 17194>>, <<9127, 43924>>, <<41017, 64659>>,
       <<22979, 25947>>, <<52370, 36620>>, <<62589, 65519>>, <<24017, 34180>>,
       <<32335, 28584>>, <<59104, 65068>>, <<17172, 41729>>, <<4513, 19976>>,
       <<32386, 63315>>, <<62005, 48442>>, <<53947, 10967>>, <<54161, 60294>>
    >>

MD5_S ==
    <<
       7, 12, 17, 22, 7, 12, 17, 22, 7, 12, 17, 22, 7, 12, 17, 22,
       5, 9, 14, 20, 5, 9, 14, 20, 5, 9, 14, 20, 5, 9, 14, 20,
       4, 11, 16, 23, 4, 11, 16, 23, 4, 11, 16, 23, 4, 11, 16, 23,
       6, 10, 15, 21, 6, 10, 15, 21, 6, 10, 15, 21, 6, 10, 15, 21
    >>


AndNibble ==
    <<
       <<0, 0, 0, 0, 0, 0, 0, 0, 0, 0, 0, 0, 0, 0, 0, 0>>,
       <<0, 1, 0, 1, 0, 1, 0, 1, 0, 1, 0, 1, 0, 1, 0, 1>>,
       <<0, 0, 2, 2, 0, 0, 2, 2, 0, 0, 2, 2, 0, 0, 2, 2>>,
       <<0, 1, 2, 3, 0, 1, 2, 3, 0, 1, 2, 3, 0, 1, 2, 3>>,
       <<0, 0, 0, 0, 4, 4, 4, 4, 0, 0, 0, 0, 4, 4, 4, 4>>,
       <<0, 1, 0, 1, 4, 5, 4, 5, 0, 1, 0, 1, 4, 5, 4, 5>>,
       <<0, 0, 2, 2, 4, 4, 6, 6, 0, 0, 2, 2, 4, 4, 6, 6>>,
       <<0, 1, 2, 3, 4, 5, 6, 7, 0, 1, 2, 3, 4, 5, 6, 7>>,
       <<0, 0, 0, 0, 0, 0, 0, 0, 8, 8, 8, 8, 8, 8, 8, 8>>,
       <<0, 1, 0, 1, 0, 1, 0, 1, 8, 9, 8, 9, 8, 9, 8, 9>>,
       <<0, 0, 2, 2, 0, 0, 2, 2, 8, 8, 10, 10, 8, 8, 10, 10>>,
       <<0, 1, 2, 3, 0, 1, 2, 3, 8, 9, 10, 11, 8, 9, 10, 11>>,
       <<0, 0, 0, 0, 4, 4, 4, 4, 8, 8, 8, 8, 12, 12, 12, 12>>,
       <<0, 1, 0, 1, 4, 5, 4, 5, 8, 9, 8, 9, 12, 13, 12, 13>>,
       <<0, 0, 2, 2, 4, 4, 6, 6, 8, 8, 10, 10, 12, 12, 14, 14>>,
       <<0, 1, 2, 3, 4, 5, 6, 7, 8, 9, 10, 11, 12, 13, 14, 15>>
    >>

And8(a, b) == AndNibble[(a % 16) + 1][(b % 16) + 1] + (16 * AndNibble[(a \div 16) + 1][(b \div 16) + 1])
And16(a, b) == And8(a % 256, b % 256) + (256 * And8(a \div 256, b \div 256))

And32(x, y) == <<And16(x[1], y[1]), And16(x[2], y[2])>>
Not32(x) == <<65535 - x[1], 65535 - x[2]>>
Or32(x, y) == LET a == And32(x, y) IN <<x[1] + y[1] - a[1], x[2] + y[2] - a[2]>>
Xor32(x, y) == LET a == And32(x, y) IN <<x[1] + y[1] - (2 * a[1]), x[2] + y[2] - (2 * a[2])>>
Add32(x, y) == LET l == x[1] + y[1] IN <<l % 65536, (x[2] + y[2] + (l \div 65536)) % 65536>>

\* rotate left by s bits, 0 < s < 32
Rotl(x, s) ==
    LET y == IF s >= 16 THEN <<x[2], x[1]>> ELSE x
        r == s % 16
    IN <<((y[1] * 2^r) % 65536) + (y[2] \div 2^(16 - r)),
         ((y[2] * 2^r) % 65536) + (y[1] \div 2^(16 - r))>>

\* the message, 0x80, zeros up to 56 mod 64, and the bit length in 8 bytes
MD5Pad(b) ==
    LET n == Len(b)
        bits == 8 * n
    IN b \o <<128>> \o [i \in 1..((55 - n) % 64) |-> 0]
         \o [i \in 1..8 |-> IF i <= 3 THEN (bits \div 256^(i - 1)) % 256 ELSE 0]

\* word j (from 0) of block k (from 0), little-endian
MD5Word(p, k, j) ==
    LET o == (64 * k) + (4 * j)
    IN <<p[o + 1] + (256 * p[o + 2]), p[o + 3] + (256 * p[o + 4])>>

MD5Step(st, M, i) ==
    LET A == st[1]
        B == st[2]
        C == st[3]
        D == st[4]
        F == IF i < 16 THEN Or32(And32(B, C), And32(Not32(B), D))
             ELSE IF i < 32 THEN Or32(And32(D, B), And32(Not32(D), C))
             ELSE IF i < 48 THEN Xor32(Xor32(B, C), D)
             ELSE Xor32(C, Or32(B, Not32(D)))
        g == IF i < 16 THEN i
             ELSE IF i < 32 THEN ((5 * i) + 1) % 16
             ELSE IF i < 48 THEN ((3 * i) + 5) % 16
             ELSE (7 * i) % 16
        T == Add32(Add32(Add32(F, A), MD5_K[i + 1]), M[g + 1])
    IN <<D, Add32(B, Rotl(T, MD5_S[i + 1])), B, C>>

\* F applied to the value of x, computed first: TLC passes arguments
\* unevaluated, and 64 nested steps would exhaust its stack
Strict(x, F(_)) == CHOOSE r \in {F(v) : v \in {x}} : TRUE

\* steps lo .. hi-1
RECURSIVE MD5Range(_, _, _, _)
MD5Range(st, M, lo, hi) ==
    IF hi = lo + 1 THEN MD5Step(st, M, lo)
    ELSE LET mid == (lo + hi) \div 2
         IN Strict(MD5Range(st, M, lo, mid), LAMBDA n : MD5Range(n, M, mid, hi))

RECURSIVE MD5Blocks(_, _, _)
MD5Blocks(st, p, k) ==
    IF 64 * k >= Len(p) THEN st
    ELSE LET M == [j \in 1..16 |-> MD5Word(p, k, j - 1)]
             r == MD5Range(st, M, 0, 64)
         IN MD5Blocks([q \in 1..4 |-> Add32(st[q], r[q])], p, k + 1)

MD5Init == <<<<8961, 26437>>, <<43913, 61389>>, <<56574, 39098>>, <<21622, 4146>>>>

HexDigits == <<"0", "1", "2", "3", "4", "5", "6", "7", "8", "9", "a", "b", "c", "d", "e", "f">>
HexByte(n) == <<HexDigits[(n \div 16) + 1], HexDigits[(n % 16) + 1]>>
WordHex(w) ==
    HexByte(w[1] % 256) \o HexByte(w[1] \div 256) \o HexByte(w[2] % 256) \o HexByte(w[2] \div 256)

\* createHash('md5').update(s).digest('hex')
MD5Hex(s) ==
    LET st == MD5Blocks(MD5Init, MD5Pad([i \in 1..Len(s) |-> CodeOf[s[i]]]), 0)
    IN WordHex(st[1]) \o WordHex(st[2]) \o WordHex(st[3]) \o WordHex(st[4])

----------------------------------------------------------------------------
(* generateQualityHash and areQualitiesEqual *)

\* a faulty SortKeys: the keys stay in insertion order
SortKeys_Unsorted(keys) == keys

\* Array.prototype.sort() on strings: ascending by code units
RECURSIVE InsertSorted(_, _)
InsertSorted(k, sorted) ==
    IF sorted = <<>> THEN <<k>>
    ELSE IF StrLess(Chars[k], Chars[sorted[1]]) THEN <<k>> \o sorted
    ELSE <<sorted[1]>> \o InsertSorted(k, Tail(sorted))

RECURSIVE SortKeys(_)
SortKeys(keys) ==
    IF keys = <<>> THEN <<>> ELSE InsertSorted(keys[1], SortKeys(Tail(keys)))

\* a faulty IsSessionKey: deviceId is hashed
IsSessionKey_DeviceHashed(k) == k \in {"playSessionId", "mediaSourceId"}

\* a faulty IsSessionKey: the audio stream selection is left out of the hash
IsSessionKey_StreamSkipped(k) ==
    k \in {"deviceId", "playSessionId", "mediaSourceId", "audioStreamIndex"}

\* ['deviceId', 'playSessionId', 'mediaSourceId'].includes(key)
IsSessionKey(k) == k \in {"deviceId", "playSessionId", "mediaSourceId"}

\* sortedQuality: the non-session entries, inserted in the order of the sorted keys
SortedQuality(q) ==
    LET sortedKeys == SortKeys(ObjectKeys(q))
        kept == SelectSeq(sortedKeys, LAMBDA k : ~IsSessionKey(k))
    IN [i \in 1..Len(kept) |-> [key |-> kept[i], value |-> Field(q, kept[i])]]

QualityString(q) == JSONStringify(SortedQuality(q))

generateQualityHash(q) == SubSeq(MD5Hex(QualityString(q)), 1, 12)

areQualitiesEqual(quality1, quality2) == generateQualityHash(quality1) = generateQualityHash(quality2)
----------------------------------------------------------------------------
(* Natural numbers of any size (TLC's integers are 32 bits wide): limbs in *)
(* base 10000, least significant first, without a leading zero limb.       *)

RECURSIVE BigTrim(_)
BigTrim(x) ==
    IF x # <<>> /\ x[Len(x)] = 0 THEN BigTrim(SubSeq(x, 1, Len(x) - 1)) ELSE x

RECURSIVE BigFromNat(_)
BigFromNat(n) == IF n = 0 THEN <<>> ELSE <<n % 10000>> \o BigFromNat(n \div 10000)

RestOf(x) == IF x = <<>> THEN <<>> ELSE Tail(x)
LimbOf(x) == IF x = <<>> THEN 0 ELSE x[1]

RECURSIVE BigAddCarry(_, _, _)
BigAddCarry(x, y, c) ==
    IF x = <<>> /\ y = <<>> THEN (IF c = 0 THEN <<>> ELSE <<c>>)
    ELSE LET t == LimbOf(x) + LimbOf(y) + c
         IN <<t % 10000>> \o BigAddCarry(RestOf(x), RestOf(y), t \div 10000)

BigAdd(x, y) == BigAddCarry(x, y, 0)

\* x - y for x >= y
RECURSIVE BigSubBorrow(_, _, _)
BigSubBorrow(x, y, b) ==
    IF x = <<>> THEN <<>>
    ELSE LET t == x[1] - LimbOf(y) - b
         IN <<(t + 10000) % 10000>> \o BigSubBorrow(Tail(x), RestOf(y), IF t < 0 THEN 1 ELSE 0)

BigSub(x, y) == BigTrim(BigSubBorrow(x, y, 0))

BigLess(x, y) ==
    IF Len(x) # Len(y) THEN Len(x) < Len(y)
    ELSE \E i \in 1..Len(x) : x[i] < y[i] /\ \A j \in (i + 1)..Len(x) : x[j] = y[j]

\* x * k for a small k
RECURSIVE BigMulCarry(_, _, _)
BigMulCarry(x, k, c) ==
    IF x = <<>> THEN (IF c = 0 THEN <<>> ELSE <<c % 10000>> \o BigMulCarry(<<>>, k, c \div 10000))
    ELSE LET t == (x[1] * k) + c
         IN <<t % 10000>> \o BigMulCarry(Tail(x), k, t \div 10000)

BigMulSmall(x, k) == BigTrim(BigMulCarry(x, k, 0))

RECURSIVE BigMul(_, _)
BigMul(x, y) ==
    IF y = <<>> THEN <<>>
    ELSE BigTrim(BigAdd(BigMulSmall(x, y[1]), <<0>> \o BigMul(x, Tail(y))))

\* quotient and remainder of x by a small k, from the most significant limb
RECURSIVE BigDivFrom(_, _, _, _)
BigDivFrom(x, k, i, r) ==
    IF i = 0 THEN [q |-> <<>>, r |-> r]
    ELSE LET cur == (r * 10000) + x[i]
             rest == BigDivFrom(x, k, i - 1, cur % k)
         IN [q |-> rest.q \o <<cur \div k>>, r |-> rest.r]

BigDivSmall(x, k) ==
    LET d == BigDivFrom(x, k, Len(x), 0) IN [q |-> BigTrim(d.q), r |-> d.r]

\* the decimal digits of x
RECURSIVE NatChars(_)
NatChars(n) == (IF n >= 10 THEN NatChars(n \div 10) ELSE <<>>) \o <<CharOf(48 + (n % 10))>>

Limb4(n) ==
    <<CharOf(48 + (n \div 1000)), CharOf(48 + ((n \div 100) % 10)),
      CharOf(48 + ((n \div 10) % 10)), CharOf(48 + (n % 10))>>

RECURSIVE BigChars(_)
BigChars(x) ==
    IF x = <<>> THEN <<"0">>
    ELSE IF Len(x) = 1 THEN NatChars(x[1])
    ELSE BigChars(SubSeq(x, 2, Len(x))) \o Limb4(x[1])

----------------------------------------------------------------------------
(* The numbers of the program: NaN, or the decimal fraction                *)
(* (-1)^neg * mag / 10^scale in lowest decimal terms.  Every division of   *)
(* the program is by 8, 10, 1000 or 1000000, so every number it computes   *)
(* is such a fraction; they are computed exactly, and -0 is 0.             *)

NaN == [nan |-> TRUE, neg |-> FALSE, mag |-> <<>>, scale |-> 0]
Zero == [nan |-> FALSE, neg |-> FALSE, mag |-> <<>>, scale |-> 0]

RECURSIVE Norm(_)
Norm(x) ==
    IF x.nan THEN NaN
    ELSE IF x.mag = <<>> THEN Zero
    ELSE IF x.scale > 0 /\ BigDivSmall(x.mag, 10).r = 0
         THEN Norm([x EXCEPT !.mag = BigDivSmall(x.mag, 10).q, !.scale = x.scale - 1])
    ELSE x

Num(n) == Norm([nan |-> FALSE, neg |-> FALSE, mag |-> BigFromNat(n), scale |-> 0])

\* mag * 10^j
RECURSIVE Shift10(_, _)
Shift10(mag, j) == IF j = 0 THEN mag ELSE Shift10(BigMulSmall(mag, 10), j - 1)

NumAdd(x, y) ==
    IF x.nan \/ y.nan THEN NaN
    ELSE LET s == IF x.scale > y.scale THEN x.scale ELSE y.scale
             a == Shift10(x.mag, s - x.scale)
             b == Shift10(y.mag, s - y.scale)
         IN IF x.neg = y.neg
            THEN Norm([nan |-> FALSE, neg |-> x.neg, mag |-> BigAdd(a, b), scale |-> s])
            ELSE IF BigLess(a, b)
            THEN Norm([nan |-> FALSE, neg |-> y.neg, mag |-> BigSub(b, a), scale |-> s])
            ELSE Norm([nan |-> FALSE, neg |-> x.neg, mag |-> BigSub(a, b), scale |-> s])

NumMul(x, y) ==
    IF x.nan \/ y.nan THEN NaN
    ELSE Norm([nan |-> FALSE, neg |-> (x.neg # y.neg), mag |-> BigMul(x.mag, y.mag),
               scale |-> x.scale + y.scale])

\* the least j with d dividing 10^j, and 10^j / d
RECURSIVE DivScale(_, _, _)
DivScale(d, j, p) == IF p % d = 0 THEN <<j, p \div d>> ELSE DivScale(d, j + 1, p * 10)

\* x / d for a divisor d of a power of ten
NumDiv(x, d) ==
    IF x.nan THEN NaN
    ELSE LET js == DivScale(d, 0, 1)
         IN Norm([nan |-> FALSE, neg |-> x.neg, mag |-> BigMulSmall(x.mag, js[2]),
                  scale |-> x.scale + js[1]])

\* mag \div 10^j, and whether a non-zero digit was dropped
RECURSIVE Chop10(_, _, _)
Chop10(mag, j, dropped) ==
    IF j = 0 THEN [q |-> mag, dropped |-> dropped]
    ELSE LET d == BigDivSmall(mag, 10) IN Chop10(d.q, j - 1, dropped \/ d.r # 0)

NumFloor(x) ==
    IF x.nan THEN NaN
    ELSE LET c == Chop10(x.mag, x.scale, FALSE)
         IN IF x.neg /\ c.dropped
            THEN Norm([nan |-> FALSE, neg |-> TRUE, mag |-> BigAdd(c.q, <<1>>), scale |-> 0])
            ELSE Norm([nan |-> FALSE, neg |-> x.neg, mag |-> c.q, scale |-> 0])

\* Math.round: the nearest integer, a tie going up
MathRound(x) == NumFloor(NumAdd(x, [nan |-> FALSE, neg |-> FALSE, mag |-> <<5>>, scale |-> 1]))

\* `${n}` for NaN or an integer n
NumToString(x) ==
    IF x.nan THEN <<"N", "a", "N">>
    ELSE (IF x.neg THEN <<"-">> ELSE <<>>) \o BigChars(x.mag)

NonNegative(x) == ~x.nan /\ ~x.neg

----------------------------------------------------------------------------
(* parseInt(string) *)

RECURSIVE TrimStart(_)
TrimStart(s) == IF s # <<>> /\ s[1] = " " THEN TrimStart(Tail(s)) ELSE s

\* the value of c as a digit of that radix, or -1
DigitOf(c, radix) ==
    IF IsDigit(c) THEN DigitVal(c)
    ELSE IF radix = 16 /\ CodeOf[c] >= 97 /\ CodeOf[c] <= 102 THEN CodeOf[c] - 87
    ELSE IF radix = 16 /\ CodeOf[c] >= 65 /\ CodeOf[c] <= 70 THEN CodeOf[c] - 55
    ELSE -1

\* the longest prefix of digits
RECURSIVE ParseDigits(_, _, _, _)
ParseDigits(s, radix, acc, any) ==
    IF s = <<>> \/ DigitOf(s[1], radix) < 0 THEN [any |-> any, mag |-> acc]
    ELSE ParseDigits(Tail(s), radix,
                     BigAdd(BigMulSmall(acc, radix), BigFromNat(DigitOf(s[1], radix))), TRUE)

ParseInt(str) ==
    LET s == TrimStart(str)
        signed == s # <<>> /\ (s[1] = "-" \/ s[1] = "+")
        neg == s # <<>> /\ s[1] = "-"
        t == IF signed THEN Tail(s) ELSE s
        hex == Len(t) >= 2 /\ t[1] = "0" /\ (t[2] = "x" \/ t[2] = "X")
        r == IF hex THEN ParseDigits(SubSeq(t, 3, Len(t)), 16, <<>>, FALSE)
             ELSE ParseDigits(t, 10, <<>>, FALSE)
    IN IF r.any THEN Norm([nan |-> FALSE, neg |-> neg, mag |-> r.mag, scale |-> 0]) ELSE NaN

----------------------------------------------------------------------------
(* getQualityDescription *)

RECURSIVE Join(_, _)
Join(parts, sep) ==
    IF parts = <<>> THEN <<>>
    ELSE IF Len(parts) = 1 THEN parts[1]
    ELSE parts[1] \o sep \o Join(Tail(parts), sep)

\* what each block of the method pushes on parts: one segment or nothing
ResolutionPart(q) ==
    IF Truthy(Field(q, "maxWidth")) /\ Truthy(Field(q, "maxHeight"))
    THEN <<Field(q, "maxWidth") \o <<"x">> \o Field(q, "maxHeight")>>
    ELSE <<>>

BitratePart(q) ==
    IF Truthy(Field(q, "maxVideoBitrate"))
    THEN LET bitrateMbps == MathRound(NumDiv(ParseInt(Field(q, "maxVideoBitrate")), 1000000))
         IN <<NumToString(bitrateMbps) \o <<"M", "b", "p", "s">>>>
    ELSE <<>>

VideoCodecPart(q) ==
    IF Truthy(Field(q, "videoCodec")) THEN <<ToUpperCase(Field(q, "videoCodec"))>> ELSE <<>>

AudioPart(q) ==
    IF Truthy(Field(q, "audioCodec"))
    THEN <<ToUpperCase(Field(q, "audioCodec"))
           \o (IF Truthy(Field(q, "audioLanguage"))
               THEN <<" ", "(">> \o Field(q, "audioLanguage") \o <<")">> ELSE <<>>)
           \o (IF Truthy(Field(q, "audioStreamIndex"))
               THEN <<" ", "[", "T", "r", "a", "c", "k", " ">> \o Field(q, "audioStreamIndex") \o <<"]">> ELSE <<>>)>>
    ELSE <<>>

SubtitlePart(q) ==
    IF Truthy(Field(q, "subtitleStreamIndex")) \/ Truthy(Field(q, "subtitleLanguage"))
    THEN <<<<"S", "u", "b", "s">>
           \o (IF Truthy(Field(q, "subtitleLanguage"))
               THEN <<" ", "(">> \o Field(q, "subtitleLanguage") \o <<")">> ELSE <<>>)
           \o (IF Truthy(Field(q, "subtitleStreamIndex"))
               THEN <<" ", "[", "T", "r", "a", "c", "k", " ">> \o Field(q, "subtitleStreamIndex") \o <<"]">> ELSE <<>>)>>
    ELSE <<>>

\* a faulty DescriptionParts: the video codec comes before the bitrate
DescriptionParts_CodecFirst(q) ==
    ResolutionPart(q) \o VideoCodecPart(q) \o BitratePart(q) \o AudioPart(q) \o SubtitlePart(q)

DescriptionParts(q) ==
    ResolutionPart(q) \o BitratePart(q) \o VideoCodecPart(q) \o AudioPart(q) \o SubtitlePart(q)

JoinParts(parts) == Join(parts, <<" ">>)

UnknownQuality == <<"U", "n", "k", "n", "o", "w", "n", " ", "Q", "u", "a", "l", "i", "t", "y">>

getQualityDescription(q) ==
    LET parts == DescriptionParts(q)
    IN IF Len(parts) > 0 THEN JoinParts(parts) ELSE UnknownQuality

----------------------------------------------------------------------------
(* getQualityScore and getQualityMetrics *)

BitrateTerm(q) ==
    IF Truthy(Field(q, "maxVideoBitrate"))
    THEN NumDiv(ParseInt(Field(q, "maxVideoBitrate")), 1000)
    ELSE Zero

PixelsTerm(q) ==
    IF Truthy(Field(q, "maxWidth")) /\ Truthy(Field(q, "maxHeight"))
    THEN LET pixels == NumMul(ParseInt(Field(q, "maxWidth")), ParseInt(Field(q, "maxHeight")))
         IN NumDiv(pixels, 1000)
    ELSE Zero

AudioTerm(q) ==
    IF Truthy(Field(q, "audioBitrate"))
    THEN NumDiv(ParseInt(Field(q, "audioBitrate")), 10)
    ELSE Zero

\* score = 0; score += ...; score += ...; score += ...
getQualityScore(q) == NumAdd(NumAdd(NumAdd(Zero, BitrateTerm(q)), PixelsTerm(q)), AudioTerm(q))

\* a faulty EstimatedSize: bits are not converted to bytes
EstimatedSize_Bits(q) ==
    IF Truthy(Field(q, "maxVideoBitrate"))
    THEN LET bitrateKbps == NumDiv(ParseInt(Field(q, "maxVideoBitrate")), 1000)
         IN NumMul(NumMul(bitrateKbps, Num(7200)), Num(1000))
    ELSE Zero

EstimatedSize(q) ==
    IF Truthy(Field(q, "maxVideoBitrate"))
    THEN LET bitrateKbps == NumDiv(ParseInt(Field(q, "maxVideoBitrate")), 1000)
         IN NumDiv(NumMul(NumMul(bitrateKbps, Num(7200)), Num(1000)), 8)
    ELSE Zero

getQualityMetrics(q) ==
    [score |-> getQualityScore(q),
     description |-> getQualityDescription(q),
     estimatedSize |-> EstimatedSize(q)]
----------------------------------------------------------------------------
(* The requests *)

\* the most parameters a generated query has
MaxQuery == 2

\* the most attributes a descriptor built by the caller has
MaxAttributes == 2

\* the parameters the generated queries are made of: both spellings, numeric,
\* non-numeric, negative and empty values, and spellings the extractor never reads
ParamChoices ==
    {
       [name |-> "maxVideoBitrate", value |-> <<"8", "0", "0", "0", "0", "0", "0">>],
       [name |-> "maxVideoBitrate", value |-> <<"a", "b", "c">>],
       [name |-> "maxVideoBitrate", value |-> <<"-", "1", "0", "0", "0">>],
       [name |-> "maxVideoBitrate", value |-> <<>>],
       [name |-> "MaxVideoBitrate", value |-> <<"4", "0", "0", "0", "0", "0", "0">>],
       [name |-> "maxWidth", value |-> <<"1", "9", "2", "0">>],
       [name |-> "maxHeight", value |-> <<"1", "0", "8", "0">>],
       [name |-> "audioBitrate", value |-> <<"1", "2", "8", "0", "0", "0">>],
       [name |-> "videoCodec", value |-> <<"h", "2", "6", "4">>],
       [name |-> "audioCodec", value |-> <<"a", "a", "c">>],
       [name |-> "audioLanguage", value |-> <<"e", "n", "g">>],
       [name |-> "audioStreamIndex", value |-> <<"2">>],
       [name |-> "AudioStreamIndex", value |-> <<"3">>],
       [name |-> "subtitleLanguage", value |-> <<"g", "e", "r">>],
       [name |-> "subtitleStreamIndex", value |-> <<"1">>],
       [name |-> "DeviceId", value |-> <<"a", "b", "c", "1", "2", "3">>],
       [name |-> "deviceId", value |-> <<"x", "y", "z">>]
    }

\* the sequences over S of at most n elements
RECURSIVE SeqsUpTo(_, _)
SeqsUpTo(S, n) ==
    IF n = 0 THEN {<<>>}
    ELSE LET shorter == SeqsUpTo(S, n - 1)
         IN shorter \cup {Append(s, x) : s \in {t \in shorter : Len(t) = n - 1}, x \in S}

\* two whole requests: the scenario of the specification, and one that has every
\* segment, the capitalized spellings and an audio bitrate
ScenarioQueries ==
    {
       <<[name |-> "maxVideoBitrate", value |-> <<"8", "0", "0", "0", "0", "0", "0">>],
          [name |-> "maxWidth", value |-> <<"1", "9", "2", "0">>],
          [name |-> "maxHeight", value |-> <<"1", "0", "8", "0">>],
          [name |-> "videoCodec", value |-> <<"h", "2", "6", "4">>],
          [name |-> "audioCodec", value |-> <<"a", "a", "c">>],
          [name |-> "audioLanguage", value |-> <<"e", "n", "g">>],
          [name |-> "audioStreamIndex", value |-> <<"2">>],
          [name |-> "DeviceId", value |-> <<"a", "b", "c", "1", "2", "3">>]>>,
       <<[name |-> "subtitleStreamIndex", value |-> <<"1">>],
          [name |-> "subtitleLanguage", value |-> <<"g", "e", "r">>],
          [name |-> "audioCodec", value |-> <<"a", "a", "c">>],
          [name |-> "VideoCodec", value |-> <<"h", "e", "v", "c">>],
          [name |-> "MaxVideoBitrate", value |-> <<"4", "0", "0", "0", "0", "0", "0">>],
          [name |-> "MaxHeight", value |-> <<"7", "2", "0">>],
          [name |-> "MaxWidth", value |-> <<"1", "2", "8", "0">>],
          [name |-> "audioBitrate", value |-> <<"1", "2", "8", "0", "0", "0">>]>>
    }

Urls ==
    {[absolute |-> a, query |-> p] : a \in BOOLEAN, p \in SeqsUpTo(ParamChoices, MaxQuery) \cup ScenarioQueries}

\* the requests whose cache keys are compared: they differ in the device, in the
\* bitrate, or in a stream selection
KeyQueries ==
    {
       <<[name |-> "maxVideoBitrate", value |-> <<"2", "2", "2", "2", "7", "0", "2", "4">>],
          [name |-> "DeviceId", value |-> <<"a", "b", "c", "1", "2", "3">>]>>,
       <<[name |-> "maxVideoBitrate", value |-> <<"2", "2", "2", "2", "7", "0", "2", "4">>],
          [name |-> "DeviceId", value |-> <<"x", "y", "z">>]>>,
       <<[name |-> "maxVideoBitrate", value |-> <<"2", "2", "2", "2", "7", "0", "2", "4">>]>>,
       <<[name |-> "maxVideoBitrate", value |-> <<"2", "8", "2", "6", "2", "8", "1", "3">>],
          [name |-> "DeviceId", value |-> <<"a", "b", "c", "1", "2", "3">>]>>,
       <<[name |-> "audioStreamIndex", value |-> <<"2">>],
          [name |-> "maxVideoBitrate", value |-> <<"2", "2", "2", "2", "7", "0", "2", "4">>],
          [name |-> "DeviceId", value |-> <<"a", "b", "c", "1", "2", "3">>]>>
    }

KeyUrls == {[absolute |-> TRUE, query |-> p] : p \in KeyQueries}

\* the entries the caller builds descriptors of, in any order of insertion
EntryChoices ==
    {
       [key |-> "maxVideoBitrate", value |-> <<"2", "2", "2", "2", "7", "0", "2", "4">>],
       [key |-> "maxVideoBitrate", value |-> <<"2", "8", "2", "6", "2", "8", "1", "3">>],
       [key |-> "audioStreamIndex", value |-> <<"2">>],
       [key |-> "deviceId", value |-> <<"a", "b", "c", "1", "2", "3">>]
    }

BuiltDescriptors ==
    {d \in SeqsUpTo(EntryChoices, MaxAttributes) :
        \A i, j \in 1..Len(d) : i # j => d[i].key # d[j].key}

----------------------------------------------------------------------------
(* The service: a request URL is extracted into its descriptor; the        *)
(* descriptor is then described, scored and measured (Spec), or the        *)
(* descriptors of two requests are hashed and compared (SpecKey).          *)

NoCall == [op |-> "none"]

Init ==
    /\ url \in {<<u>> : u \in Urls}
    /\ quality = <<>>
    /\ key = <<>>
    /\ equal = <<>>
    /\ pc = "request"
    /\ ret = NoCall
    /\ logged = <<>>

InitKey ==
    /\ \/ /\ url \in {<<u1, u2>> : u1 \in KeyUrls, u2 \in KeyUrls}
          /\ quality = <<>>
          /\ pc = "request"
       \/ /\ url = <<>>
          /\ quality \in {<<d1, d2>> : d1 \in BuiltDescriptors, d2 \in BuiltDescriptors}
          /\ pc = "ready"
    /\ key = <<>>
    /\ equal = <<>>
    /\ ret = NoCall
    /\ logged = <<>>

\* extractQualityFromUrl(url) for the next request
ExtractQualityFromUrl ==
    /\ pc = "request"
    /\ LET r == extractQualityFromUrl(url[Len(quality) + 1])
       IN /\ quality' = Append(quality, r.value)
          /\ ret' = [op |-> "extractQualityFromUrl", threw |-> r.threw, value |-> r.value]
          /\ logged' = r.logs
          /\ pc' = IF Len(quality) + 1 < Len(url) THEN "request" ELSE "ready"
    /\ UNCHANGED <<url, key, equal>>

GetQualityDescription ==
    /\ pc = "ready"
    /\ ret' = [op |-> "getQualityDescription", value |-> getQualityDescription(quality[1])]
    /\ logged' = <<>>
    /\ pc' = "done"
    /\ UNCHANGED <<url, quality, key, equal>>

GetQualityScore ==
    /\ pc = "ready"
    /\ ret' = [op |-> "getQualityScore", value |-> getQualityScore(quality[1])]
    /\ logged' = <<>>
    /\ pc' = "done"
    /\ UNCHANGED <<url, quality, key, equal>>

GetQualityMetrics ==
    /\ pc = "ready"
    /\ ret' = [op |-> "getQualityMetrics", value |-> getQualityMetrics(quality[1])]
    /\ logged' = <<>>
    /\ pc' = "done"
    /\ UNCHANGED <<url, quality, key, equal>>

\* generateQualityHash(qualityInfo) for the next descriptor
GenerateQualityHash ==
    /\ pc = "ready"
    /\ Len(key) < Len(quality)
    /\ LET hash == generateQualityHash(quality[Len(key) + 1])
       IN /\ key' = Append(key, hash)
          /\ ret' = [op |-> "generateQualityHash", value |-> hash]
    /\ logged' = <<"debug">>
    /\ UNCHANGED <<url, quality, equal, pc>>

\* areQualitiesEqual(quality1, quality2), once both keys are stored
AreQualitiesEqual ==
    /\ pc = "ready"
    /\ Len(key) = 2
    /\ LET same == areQualitiesEqual(quality[1], quality[2])
       IN /\ equal' = <<same>>
          /\ ret' = [op |-> "areQualitiesEqual", value |-> same]
    /\ logged' = <<"debug", "debug">>
    /\ pc' = "done"
    /\ UNCHANGED <<url, quality, key>>

Next ==
    \/ ExtractQualityFromUrl
    \/ GetQualityDescription
    \/ GetQualityScore
    \/ GetQualityMetrics

NextKey ==
    \/ ExtractQualityFromUrl
    \/ GenerateQualityHash
    \/ AreQualitiesEqual

Spec == Init /\ [][Next]_vars

SpecKey == InitKey /\ [][NextKey]_vars
----------------------------------------------------------------------------
(* Properties *)

AttributeKeys == {Attributes[i].key : i \in 1..Len(Attributes)}

SessionAttributes == {"mediaSourceId", "deviceId", "playSessionId"}

\* the descriptors agree, in presence and in value, on every attribute that is
\* not a session attribute
AgreeExceptSession(d1, d2) ==
    \A k \in AttributeKeys \ SessionAttributes : Field(d1, k) = Field(d2, k)

WithoutParam(params, name) == SelectSeq(params, LAMBDA e : e.name # name)

IdenticalExceptDeviceId(u1, u2) ==
    /\ u1.absolute = u2.absolute
    /\ WithoutParam(u1.query, "DeviceId") = WithoutParam(u2.query, "DeviceId")

Compared == Len(quality) = 2 /\ equal # <<>>

\* C1: two descriptors that differ only in mediaSourceId, deviceId or
\* playSessionId (present, absent or different values) get the same cache key
\* and areQualitiesEqual is true; so do the descriptors extracted from two URLs
\* that are identical except for DeviceId.
C1_SessionFieldsIgnored ==
    Compared =>
        /\ AgreeExceptSession(quality[1], quality[2]) => (key[1] = key[2] /\ equal[1])
        /\ (Len(url) = 2 /\ IdenticalExceptDeviceId(url[1], url[2])) => (key[1] = key[2] /\ equal[1])

C1_Witness ==
    /\ Compared
    /\ Len(url) = 2
    /\ IdenticalExceptDeviceId(url[1], url[2])
    /\ HasKey(quality[1], "deviceId")
    /\ HasKey(quality[2], "deviceId")
    /\ Field(quality[1], "deviceId") # Field(quality[2], "deviceId")
    /\ HasKey(quality[1], "maxVideoBitrate")
    /\ equal = <<TRUE>>

\* C2 as claimed: the cache keys are equal, and areQualitiesEqual is true, if
\* and only if the descriptors agree on every attribute except the session
\* attributes.
C2_KeyEqualIffAgree ==
    Compared =>
        /\ (key[1] = key[2]) <=> AgreeExceptSession(quality[1], quality[2])
        /\ equal[1] <=> AgreeExceptSession(quality[1], quality[2])

\* C2 as amended: the descriptors agree on every attribute except the session
\* attributes if and only if the serializations that are hashed are equal;
\* descriptors that agree get equal keys, areQualitiesEqual is the equality of
\* the keys, and so unequal keys come only from descriptors that differ.
C2_SerializationIffAgree ==
    Compared =>
        /\ AgreeExceptSession(quality[1], quality[2])
               <=> (QualityString(quality[1]) = QualityString(quality[2]))
        /\ AgreeExceptSession(quality[1], quality[2]) => key[1] = key[2]
        /\ equal[1] <=> (key[1] = key[2])

C2_Witness ==
    /\ Compared
    /\ ~AgreeExceptSession(quality[1], quality[2])
    /\ Field(quality[1], "deviceId") = Field(quality[2], "deviceId")
    /\ equal = <<FALSE>>

SameEntries(d1, d2) == {d1[i] : i \in 1..Len(d1)} = {d2[i] : i \in 1..Len(d2)}

QualityKeysInOrder(d) == SelectSeq(ObjectKeys(d), LAMBDA k : k \notin SessionAttributes)

\* C3: two descriptors that hold the same attribute/value pairs, inserted in
\* different orders, have the same canonical serialization and the same key.
C3_InsertionOrderIgnored ==
    (Len(quality) = 2 /\ Len(key) = 2 /\ SameEntries(quality[1], quality[2])) =>
        /\ QualityString(quality[1]) = QualityString(quality[2])
        /\ key[1] = key[2]

C3_Witness ==
    /\ Len(quality) = 2
    /\ Len(key) = 2
    /\ SameEntries(quality[1], quality[2])
    /\ Len(QualityKeysInOrder(quality[1])) = 2
    /\ QualityKeysInOrder(quality[1]) # QualityKeysInOrder(quality[2])

Extracted == ret.op = "extractQualityFromUrl"

\* the URL the last extraction was given, and what it returned
LastUrl == url[Len(quality)]
LastQuality == quality[Len(quality)]

\* C4: extractQualityFromUrl never raises; given a string that is not a URL it
\* returns the empty descriptor and logs one record.
C4_ExtractNeverRaises ==
    Extracted =>
        /\ ~ret.threw
        /\ ret.value = LastQuality
        /\ ~LastUrl.absolute => (ret.value = <<>> /\ Len(logged) = 1 /\ logged[1] = "error")

C4_Witness ==
    /\ Extracted
    /\ ~LastUrl.absolute
    /\ LastUrl.query # <<>>
    /\ ret.value = <<>>

DualSpellingAttributes ==
    {"maxVideoBitrate", "videoCodec", "maxWidth", "maxHeight", "videoLevel", "profile",
     "maxFramerate", "videoBitDepth", "audioCodec", "audioChannels", "audioBitrate",
     "audioSampleRate", "container", "segmentContainer", "subtitleCodec"}

StreamSelectionAttributes ==
    {"audioStreamIndex", "subtitleStreamIndex", "audioLanguage", "subtitleLanguage",
     "maxAudioChannels", "transcodingMaxAudioChannels", "subtitleMethod", "startTimeTicks"}

\* the capitalized spelling of a lower-camel-case name
CapitalName(a) ==
    CHOOSE n \in DOMAIN Chars : Chars[n] = <<ToUpperChar(Chars[a][1])>> \o Tail(Chars[a])

NonEmpty(v) == v # Null /\ v # <<>>

\* C5: a video, audio, container or subtitle-codec attribute is the value of
\* the lower-camel-case parameter when that is non-empty, and otherwise the
\* value of the capitalized parameter; a stream-selection attribute is read
\* from the lower-camel-case parameter only.
C5_SpellingPriority ==
    (Extracted /\ LastUrl.absolute) =>
        /\ \A a \in DualSpellingAttributes :
              LET lower == Get(LastUrl.query, a)
                  capital == Get(LastUrl.query, CapitalName(a))
              IN Field(LastQuality, a) =
                     IF NonEmpty(lower) THEN lower
                     ELSE IF NonEmpty(capital) THEN capital
                     ELSE Undefined
        /\ \A a \in StreamSelectionAttributes :
              LET lower == Get(LastUrl.query, a)
              IN Field(LastQuality, a) = IF NonEmpty(lower) THEN lower ELSE Undefined

C5_Witness ==
    /\ Extracted
    /\ LastUrl.absolute
    /\ Get(LastUrl.query, "maxVideoBitrate") = <<>>
    /\ NonEmpty(Get(LastUrl.query, "MaxVideoBitrate"))
    /\ Field(LastQuality, "maxVideoBitrate") = Get(LastUrl.query, "MaxVideoBitrate")

NoPlaceholder(d) == \A i \in 1..Len(d) : d[i].value \notin {Undefined, Null, <<>>}

\* C6 as claimed: an attribute is a key of the result if and only if a
\* parameter for it is present in the URL under one of its accepted spellings,
\* and no key maps to an undefined, null or empty value.
C6_KeyIffParameterPresent ==
    (Extracted /\ LastUrl.absolute) =>
        /\ \A i \in 1..Len(Attributes) :
              HasKey(LastQuality, Attributes[i].key)
                  <=> \E j \in 1..Len(Attributes[i].names) :
                          Get(LastUrl.query, Attributes[i].names[j]) # Null
        /\ NoPlaceholder(LastQuality)

\* C6 as amended: an attribute is a key of the result if and only if, under
\* one of its accepted spellings, the first parameter of that name has a
\* non-empty value; every key is an attribute of the vocabulary and no key maps
\* to an undefined, null or empty value.
C6_KeyIffParameterNonEmpty ==
    (Extracted /\ LastUrl.absolute) =>
        /\ \A i \in 1..Len(Attributes) :
              HasKey(LastQuality, Attributes[i].key)
                  <=> \E j \in 1..Len(Attributes[i].names) :
                          NonEmpty(Get(LastUrl.query, Attributes[i].names[j]))
        /\ \A i \in 1..Len(LastQuality) : LastQuality[i].key \in AttributeKeys
        /\ NoPlaceholder(LastQuality)

C6_Witness ==
    /\ Extracted
    /\ LastUrl.absolute
    /\ Get(LastUrl.query, "maxVideoBitrate") = <<>>
    /\ ~HasKey(LastQuality, "maxVideoBitrate")
    /\ Len(LastQuality) = 1

Parses(v) == Truthy(v) /\ ~ParseInt(v).nan

\* C7: the score is maxVideoBitrate/1000 + maxWidth*maxHeight/1000 +
\* audioBitrate/10, where a term is 0 when its attribute is absent or does not
\* parse as an integer, and the other terms are computed normally.
C7_UnparsableTermIsZero ==
    ret.op = "getQualityScore" =>
        LET q == quality[1]
            bitrate == IF Parses(Field(q, "maxVideoBitrate"))
                       THEN NumDiv(ParseInt(Field(q, "maxVideoBitrate")), 1000) ELSE Zero
            pixels == IF Parses(Field(q, "maxWidth")) /\ Parses(Field(q, "maxHeight"))
                      THEN NumDiv(NumMul(ParseInt(Field(q, "maxWidth")),
                                         ParseInt(Field(q, "maxHeight"))), 1000)
                      ELSE Zero
            audio == IF Parses(Field(q, "audioBitrate"))
                     THEN NumDiv(ParseInt(Field(q, "audioBitrate")), 10) ELSE Zero
        IN ret.value = NumAdd(NumAdd(bitrate, pixels), audio)

\* the numeric attributes the score reads hold integer strings where present
NumericAttributesParse(q) ==
    \A k \in {"maxVideoBitrate", "maxWidth", "maxHeight", "audioBitrate"} :
        HasKey(q, k) => Parses(Field(q, k))

\* C8: the score is a non-negative number, also for the descriptors whose
\* numeric attributes hold negative integer strings (stated for the
\* descriptors whose numeric attributes parse, where the score is a number).
C8_ScoreNonNegative ==
    (ret.op = "getQualityScore" /\ NumericAttributesParse(quality[1])) => NonNegative(ret.value)

C9_Unknown == <<"U", "n", "k", "n", "o", "w", "n", " ", "Q", "u", "a", "l", "i", "t", "y">>

C9_Scenario == <<"1", "9", "2", "0", "x", "1", "0", "8", "0", " ", "8", "M", "b", "p", "s", " ", "H", "2", "6", "4", " ", "A", "A", "C", " ", "(", "e", "n", "g", ")", " ", "[", "T", "r", "a", "c", "k", " ", "2", "]">>

RECURSIVE C9_SingleSpaced(_)
C9_SingleSpaced(segments) ==
    IF Len(segments) = 1 THEN segments[1]
    ELSE segments[1] \o <<" ">> \o C9_SingleSpaced(Tail(segments))

\* the segments that apply, in the order resolution, video bitrate, video
\* codec, audio summary, subtitle summary
C9_Segments(q) ==
    (IF HasKey(q, "maxWidth") /\ HasKey(q, "maxHeight") THEN ResolutionPart(q) ELSE <<>>)
    \o (IF HasKey(q, "maxVideoBitrate") THEN BitratePart(q) ELSE <<>>)
    \o (IF HasKey(q, "videoCodec") THEN VideoCodecPart(q) ELSE <<>>)
    \o (IF HasKey(q, "audioCodec") THEN AudioPart(q) ELSE <<>>)
    \o (IF HasKey(q, "subtitleLanguage") \/ HasKey(q, "subtitleStreamIndex")
        THEN SubtitlePart(q) ELSE <<>>)

\* segment k of the five applies to q
C9_Applies(q, k) ==
    IF k = 1 THEN HasKey(q, "maxWidth") /\ HasKey(q, "maxHeight")
    ELSE IF k = 2 THEN HasKey(q, "maxVideoBitrate")
    ELSE IF k = 3 THEN HasKey(q, "videoCodec")
    ELSE IF k = 4 THEN HasKey(q, "audioCodec")
    ELSE HasKey(q, "subtitleLanguage") \/ HasKey(q, "subtitleStreamIndex")

\* C9: the description is the applicable segments, in the fixed order, joined
\* by single spaces; it is 'Unknown Quality' exactly when no segment applies;
\* the scenario of the specification reads 1920x1080 8Mbps H264 AAC (eng) [Track 2].
C9_DescriptionSegments ==
    ret.op = "getQualityDescription" =>
        LET segments == C9_Segments(quality[1])
        IN /\ Len(segments) = Cardinality({k \in 1..5 : C9_Applies(quality[1], k)})
           /\ ret.value = IF segments = <<>> THEN C9_Unknown ELSE C9_SingleSpaced(segments)
           /\ (ret.value = C9_Unknown) <=> (segments = <<>>)
           /\ url[1].query \in ScenarioQueries /\ HasKey(quality[1], "deviceId")
                  => ret.value = C9_Scenario

C9_Witness ==
    /\ ret.op = "getQualityDescription"
    /\ Len(C9_Segments(quality[1])) = 5
    /\ ret.value # C9_Unknown

\* 7,200,000,000
C10_ScenarioSize == [nan |-> FALSE, neg |-> FALSE, mag |-> <<0, 0, 72>>, scale |-> 0]

\* C10: the metrics are the score, the description, and an estimated size of 0
\* when maxVideoBitrate is absent and of (maxVideoBitrate/1000) * 7200 * 1000 / 8,
\* 900 times the bitrate, otherwise: 7,200,000,000 for 8000000.
C10_Metrics ==
    ret.op = "getQualityMetrics" =>
        LET q == quality[1]
        IN /\ ret.value.score = getQualityScore(q)
           /\ ret.value.description = getQualityDescription(q)
           /\ ret.value.estimatedSize =
                  IF ~HasKey(q, "maxVideoBitrate") THEN Zero
                  ELSE NumMul(Num(900), ParseInt(Field(q, "maxVideoBitrate")))
           /\ Field(q, "maxVideoBitrate") = <<"8", "0", "0", "0", "0", "0", "0">> => ret.value.estimatedSize = C10_ScenarioSize

C10_Witness ==
    /\ ret.op = "getQualityMetrics"
    /\ Field(quality[1], "maxVideoBitrate") = <<"8", "0", "0", "0", "0", "0", "0">>
    /\ ret.value.estimatedSize = C10_ScenarioSize
====
